---- MODULE Spec2Model ----
(***************************************************************************)
(* Transaction Check API (src/src/index.ts): a Hono application in front   *)
(* of a Redis store.  The model covers the process lifecycle (startup      *)
(* readiness loop, graceful shutdown), the shutdown gate middleware, the   *)
(* health route GET /health and the business route                         *)
(* POST /api/payment/v2/:site/:id with its key resolution, JSON parsing,   *)
(* status normalisation and response assembly.                             *)
(*                                                                         *)
(* JavaScript values are tagged records [t |-> type, v |-> payload]; a     *)
(* JavaScript string is the sequence of its character codes, so that       *)
(* toLowerCase is computed and not assumed.                                *)
(***************************************************************************)
EXTENDS Integers, Sequences, FiniteSets, TLC

VARIABLES
    store,          \* the Redis keyspace: key -> reply of GET
    redisStatus,    \* redis.status of the ioredis client
    startPc,        \* position of startServer / waitForRedis
    attempts,       \* waitForRedis: let attempts
    isShuttingDown, \* module-level flag (index.ts:31)
    shutPc,         \* position of the one running gracefulShutdown call
    timer,          \* the GRACEFUL_SHUTDOWN_TIMEOUT timer of gracefulShutdown
    exited,         \* process.exit was called
    exitCode,       \* the code given to process.exit
    shutSignal,     \* gracefulShutdown: the signal parameter of the running call
    req,            \* in-flight business requests, one record per slot
    health          \* the in-flight GET /health request

vars == <<store, redisStatus, startPc, attempts, isShuttingDown, shutPc,
          timer, exited, exitCode, shutSignal, req, health>>

----------------------------------------------------------------------------
(* Bounds *)

\* number of business requests that can be in flight at once
MaxInFlight == 2

Slots == 1..MaxInFlight

\* largest reading of Date.now() during a health check
MaxClock == 1

Clock == 0..MaxClock

\* path parameters :site and :id, drawn delimiter-free
Sites == {"s1", "s2"}
Ids == {"i1", "i2"}

----------------------------------------------------------------------------
(* JavaScript strings as sequences of character codes *)

Str_empty == <<>>
\* "pending"
Str_pending == <<112, 101, 110, 100, 105, 110, 103>>
\* "created"
Str_created == <<99, 114, 101, 97, 116, 101, 100>>
\* "error"
Str_error == <<101, 114, 114, 111, 114>>
\* "Service is shutting down"
Str_shutting == <<83, 101, 114, 118, 105, 99, 101, 32, 105, 115, 32, 115, 104,
                  117, 116, 116, 105, 110, 103, 32, 100, 111, 119, 110>>
\* "CREATED"
Str_CREATED == <<67, 82, 69, 65, 84, 69, 68>>
\* "Created"
Str_Created == <<67, 114, 101, 97, 116, 101, 100>>
\* "SUCCESS"
Str_SUCCESS == <<83, 85, 67, 67, 69, 83, 83>>
\* "success"
Str_success == <<115, 117, 99, 99, 101, 115, 115>>
\* "sended"
Str_sended == <<115, 101, 110, 100, 101, 100>>
\* "Sended"
Str_Sended == <<83, 101, 110, 100, 101, 100>>
\* "successed"
Str_successed == <<115, 117, 99, 99, 101, 115, 115, 101, 100>>
\* "500"
Str_500 == <<53, 48, 48>>
\* "healthy"
Str_healthy == <<104, 101, 97, 108, 116, 104, 121>>
\* "unhealthy"
Str_unhealthy == <<117, 110, 104, 101, 97, 108, 116, 104, 121>>
\* "connected"
Str_connected == <<99, 111, 110, 110, 101, 99, 116, 101, 100>>
\* "disconnected"
Str_disconnected ==
    <<100, 105, 115, 99, 111, 110, 110, 101, 99, 116, 101, 100>>

\* String.prototype.toLowerCase on ASCII text: "A".."Z" (65..90) move by 32

ToLowerCase(s) ==
    [k \in 1..Len(s) |-> IF s[k] >= 65 /\ s[k] <= 90 THEN s[k] + 32 ELSE s[k]]

----------------------------------------------------------------------------
(* JavaScript / JSON values *)

JUndef == [t |-> "undefined", v |-> 0]
JNull == [t |-> "null", v |-> 0]
JBool(b) == [t |-> "boolean", v |-> b]
JNum(n) == [t |-> "number", v |-> n]
JStr(s) == [t |-> "string", v |-> s]
\* an object; only the properties the handler reads are kept
JObj(status, amount) == [t |-> "object", v |-> [status |-> status, amount |-> amount]]

\* ToBoolean
JsTruthy(j) ==
    CASE j.t = "undefined" -> FALSE
      [] j.t = "null" -> FALSE
      [] j.t = "boolean" -> j.v
      [] j.t = "number" -> j.v # 0
      [] j.t = "string" -> Len(j.v) > 0
      [] OTHER -> TRUE

\* property read j.name on a non-nullish value
Prop(j, name) == IF j.t = "object" THEN j.v[name] ELSE JUndef

----------------------------------------------------------------------------
(* Replies of redis.get: null, or the stored string *)

NullReply == [t |-> "nil", wf |-> FALSE, empty |-> TRUE, json |-> JUndef]
\* the stored string ""
EmptyText == [t |-> "text", wf |-> FALSE, empty |-> TRUE, json |-> JUndef]
\* a stored non-empty string that is not JSON, e.g. "{bad"
Garbage == [t |-> "text", wf |-> FALSE, empty |-> FALSE, json |-> JUndef]
\* the stored string JSON.stringify(j)
Stringify(j) == [t |-> "text", wf |-> TRUE, empty |-> FALSE, json |-> j]

\* if (data): a reply is truthy when it is a non-empty string
DataTruthy(data) == data.t = "text" /\ ~data.empty

\* JSON.parse(data): the parsed value, or a SyntaxError
JSONparse(data) ==
    IF data.t = "text" /\ data.wf
    THEN [ok |-> TRUE, value |-> data.json]
    ELSE [ok |-> FALSE, value |-> JUndef]

----------------------------------------------------------------------------
(* Store keys *)

KEY_PREFIX == "kob:transaction"

\* the types with the first two exchanged
TRANSACTION_TYPES_Swapped == <<"withdraw", "deposit", "settlement">>

\* a loop over two types only
TRANSACTION_TYPES_Two == <<"deposit", "withdraw">>

\* const TRANSACTION_TYPES = ['deposit', 'withdraw', 'settlement']
TRANSACTION_TYPES == <<"deposit", "withdraw", "settlement">>

\* `kob:ttf:compay:${id}`
ProviderKey(id) == <<"kob:ttf:compay", id>>

\* `${KEY_PREFIX}:${type}:${site}:${id}`
LegacyKey(type, site, id) == <<KEY_PREFIX, type, site, id>>

Keys ==
    {ProviderKey(id) : id \in Ids}
    \cup {LegacyKey(TRANSACTION_TYPES[k], site, id) :
            k \in 1..Len(TRANSACTION_TYPES), site \in Sites, id \in Ids}

----------------------------------------------------------------------------
(* Responses: HTTP status code and JSON body *)

NoResponse ==
    [code |-> 0, body |-> [status |-> JUndef, message |-> JUndef, data |-> JUndef]]

\* an envelope whose status is false
Envelope_StatusFalse(status, amount) ==
    [code |-> 200,
     body |-> [status |-> JBool(FALSE), message |-> JStr(Str_empty),
               data |-> JObj(JStr(status), amount)]]

\* c.json(<TransactionResponse>): status 200
Envelope(status, amount) ==
    [code |-> 200,
     body |-> [status |-> JBool(TRUE), message |-> JStr(Str_empty),
               data |-> JObj(JStr(status), amount)]]

\* the body of the shutdown gate (its timestamp is left out)
ShuttingDownResponse ==
    [code |-> 503,
     body |-> [status |-> JStr(Str_error), message |-> JStr(Str_shutting),
               data |-> JUndef]]

\* a not-found body that leaks the raw "created"
NotFoundResponse_Created == Envelope(Str_created, JNum(0))

\* notFoundResponse
NotFoundResponse == Envelope(Str_pending, JNum(0))

\* an error body sent with status 500
ErrorResponse_500 == [Envelope(Str_pending, JNum(0)) EXCEPT !.code = 500]

\* errorResponse
ErrorResponse == Envelope(Str_pending, JNum(0))

----------------------------------------------------------------------------
(* Status normalisation and response assembly of a found transaction *)

\* a normalisation that never throws
StatusThrows_Never(transaction) == FALSE

\* transaction.status?.toLowerCase() throws a TypeError when status is
\* neither nullish nor a string
StatusThrows(transaction) ==
    Prop(transaction, "status").t \notin {"undefined", "null", "string"}

\* the same without the case fold
LowerOrPending_NoFold(transaction) ==
    LET s == Prop(transaction, "status")
    IN IF s.t = "string" /\ Len(s.v) > 0 THEN s.v ELSE Str_pending

\* transaction.status?.toLowerCase() || 'pending'
LowerOrPending(transaction) ==
    LET s == Prop(transaction, "status")
        lowered == IF s.t = "string" THEN JStr(ToLowerCase(s.v)) ELSE JUndef
    IN IF JsTruthy(lowered) THEN lowered.v ELSE Str_pending

\* the same without the alias
MapStatus_NoAlias(transaction) == LowerOrPending(transaction)

\* if (status === 'created') status = 'pending'
MapStatus(transaction) ==
    LET status == LowerOrPending(transaction)
    IN IF status = Str_created THEN Str_pending ELSE status

\* an amount that is always the default
Amount_Zero(transaction) == JNum(0)

\* transaction.amount || 0
Amount(transaction) ==
    LET a == Prop(transaction, "amount")
    IN IF JsTruthy(a) THEN a ELSE JNum(0)

FoundResponse(transaction) == Envelope(MapStatus(transaction), Amount(transaction))

----------------------------------------------------------------------------
(* The business route, POST /api/payment/v2/:site/:id.  A request is a      *)
(* record of the handler's locals and its position: "getProvider" and       *)
(* "getLegacy" are the two awaits of redis.get, and "ret503", "retFound",   *)
(* "retNotFound", "retError" the four return statements.                    *)

IdleReq ==
    [pc |-> "idle", site |-> "", id |-> "", i |-> 0, transaction |-> JNull,
     foundKey |-> <<>>, error |-> "none", resp |-> NoResponse]

Awaiting == {"getProvider", "getLegacy"}
Returned == {"ret503", "retFound", "retNotFound", "retError"}

\* a gate that lets every request through
ShutdownGate_Open(flag, site, id) ==
    [IdleReq EXCEPT !.pc = "getProvider", !.site = site, !.id = id]

\* the shutdown middleware, then the handler up to its first await
ShutdownGate(flag, site, id) ==
    IF flag
    THEN [IdleReq EXCEPT !.pc = "ret503", !.site = site, !.id = id,
                         !.resp = ShuttingDownResponse]
    ELSE [IdleReq EXCEPT !.pc = "getProvider", !.site = site, !.id = id]

\* the key of the read the request is waiting for
CurrentKey(q) ==
    IF q.pc = "getProvider"
    THEN ProviderKey(q.id)
    ELSE LegacyKey(TRANSACTION_TYPES[q.i], q.site, q.id)

\* a catch that takes a failed read of the provider key for a miss and goes
\* on to the legacy keys
Catch_Continue(q, err) ==
    IF err = "StoreError" /\ q.pc = "getProvider"
    THEN [q EXCEPT !.pc = "getLegacy", !.i = 1]
    ELSE [q EXCEPT !.pc = "retError", !.error = err, !.resp = ErrorResponse]

\* catch (error): the error envelope
Catch(q, err) == [q EXCEPT !.pc = "retError", !.error = err, !.resp = ErrorResponse]

\* if (transaction) { ... return c.json(response) } ... return c.json(notFoundResponse)
Respond(q) ==
    IF JsTruthy(q.transaction)
    THEN IF StatusThrows(q.transaction)
         THEN Catch(q, "TypeError")
         ELSE [q EXCEPT !.pc = "retFound", !.resp = FoundResponse(q.transaction)]
    ELSE [q EXCEPT !.pc = "retNotFound", !.resp = NotFoundResponse]

\* a legacy search that runs whatever the provider key gave
SearchLegacy_Always(transaction) == TRUE

\* if (!transaction)
SearchLegacy(transaction) == ~JsTruthy(transaction)

\* the reply of the provider-key read: parse, then the legacy loop or the response
OnProviderReply(q, data) ==
    LET parsed == JSONparse(data)
        hit == DataTruthy(data) /\ parsed.ok
        q1 == IF hit
              THEN [q EXCEPT !.transaction = parsed.value,
                             !.foundKey = ProviderKey(q.id)]
              ELSE q
    IN IF SearchLegacy(q1.transaction)
       THEN [q1 EXCEPT !.pc = "getLegacy", !.i = 1]
       ELSE Respond(q1)

\* the same with the break after the try block: an unparseable value ends the loop
OnLegacyReply_BreakOnParseError(q, data) ==
    LET parsed == JSONparse(data)
        hit == DataTruthy(data) /\ parsed.ok
        q1 == IF hit
              THEN [q EXCEPT !.transaction = parsed.value, !.foundKey = CurrentKey(q)]
              ELSE q
    IN IF DataTruthy(data) \/ q.i = Len(TRANSACTION_TYPES)
       THEN Respond(q1)
       ELSE [q EXCEPT !.i = q.i + 1]

\* a loop that takes a falsy parsed value for a miss and goes on
OnLegacyReply_SkipFalsy(q, data) ==
    LET parsed == JSONparse(data)
        hit == DataTruthy(data) /\ parsed.ok /\ JsTruthy(parsed.value)
        q1 == IF hit
              THEN [q EXCEPT !.transaction = parsed.value, !.foundKey = CurrentKey(q)]
              ELSE q
    IN IF hit
       THEN Respond(q1)
       ELSE IF q.i < Len(TRANSACTION_TYPES)
            THEN [q EXCEPT !.i = q.i + 1]
            ELSE Respond(q)

\* a loop without the break: the later types are read after a parse success
OnLegacyReply_NoBreak(q, data) ==
    LET parsed == JSONparse(data)
        hit == DataTruthy(data) /\ parsed.ok
        q1 == IF hit
              THEN [q EXCEPT !.transaction = parsed.value, !.foundKey = CurrentKey(q)]
              ELSE q
    IN IF q.i < Len(TRANSACTION_TYPES)
       THEN [q1 EXCEPT !.i = q.i + 1]
       ELSE Respond(q1)

\* the reply of a legacy-key read: parse and break, or the next type, or the response
OnLegacyReply(q, data) ==
    LET parsed == JSONparse(data)
        hit == DataTruthy(data) /\ parsed.ok
        q1 == IF hit
              THEN [q EXCEPT !.transaction = parsed.value, !.foundKey = CurrentKey(q)]
              ELSE q
    IN IF hit
       THEN Respond(q1)
       ELSE IF q.i < Len(TRANSACTION_TYPES)
            THEN [q EXCEPT !.i = q.i + 1]
            ELSE Respond(q)

\* a server that takes requests before startServer has returned
Serving_BeforeReady(pc) == TRUE

\* export default await startServer(): the runtime gets { port, fetch } only
\* once startServer has returned
Serving(pc) == pc = "listening"

\* a read that removes what it reads (GETDEL)
KeyspaceAfterGet_Del(keyspace, key) == [keyspace EXCEPT ![key] = NullReply]

\* redis.get(key) is the only command a handler sends: the keyspace stays
KeyspaceAfterGet(keyspace, key) == keyspace

\* a request arrives on a listening server
Arrive(r, site, id) ==
    /\ ~exited
    /\ Serving(startPc)
    /\ req[r].pc = "idle"
    /\ req' = [req EXCEPT ![r] = ShutdownGate(isShuttingDown, site, id)]
    /\ UNCHANGED <<store, redisStatus, startPc, attempts, isShuttingDown,
                   shutPc, timer, exited, exitCode, shutSignal, health>>

\* a handler that keeps the parsed value in a variable the requests share
GetReply_SharedTransaction(r) ==
    /\ ~exited
    /\ req[r].pc \in Awaiting
    /\ redisStatus = "ready"
    /\ LET q == IF req[r].pc = "getProvider"
                THEN OnProviderReply(req[r], store[CurrentKey(req[r])])
                ELSE OnLegacyReply(req[r], store[CurrentKey(req[r])])
       IN req' = [s \in Slots |->
                    IF s = r
                    THEN q
                    ELSE IF req[s].pc \in Awaiting
                         THEN [req[s] EXCEPT !.transaction = q.transaction]
                         ELSE req[s]]
    /\ store' = KeyspaceAfterGet(store, CurrentKey(req[r]))
    /\ UNCHANGED <<redisStatus, startPc, attempts, isShuttingDown,
                   shutPc, timer, exited, exitCode, shutSignal, health>>

\* await redis.get(key) resolves with the reply
GetReply(r) ==
    /\ ~exited
    /\ req[r].pc \in Awaiting
    /\ redisStatus = "ready"
    /\ req' = [req EXCEPT ![r] =
                 IF req[r].pc = "getProvider"
                 THEN OnProviderReply(req[r], store[CurrentKey(req[r])])
                 ELSE OnLegacyReply(req[r], store[CurrentKey(req[r])])]
    /\ store' = KeyspaceAfterGet(store, CurrentKey(req[r]))
    /\ UNCHANGED <<redisStatus, startPc, attempts, isShuttingDown,
                   shutPc, timer, exited, exitCode, shutSignal, health>>

\* await redis.get(key) rejects: command timeout or connection error
GetThrow(r) ==
    /\ ~exited
    /\ req[r].pc \in Awaiting
    /\ req' = [req EXCEPT ![r] = Catch(req[r], "StoreError")]
    /\ UNCHANGED <<store, redisStatus, startPc, attempts, isShuttingDown,
                   shutPc, timer, exited, exitCode, shutSignal, health>>

\* the response has been written and the request is over
Close(r) ==
    /\ ~exited
    /\ req[r].pc \in Returned
    /\ req' = [req EXCEPT ![r] = IdleReq]
    /\ UNCHANGED <<store, redisStatus, startPc, attempts, isShuttingDown,
                   shutPc, timer, exited, exitCode, shutSignal, health>>

----------------------------------------------------------------------------
(* The health route, GET /health.  "ping" is the await of redis.ping(),     *)
(* "retHealthy" and "retUnhealthy" the two return statements, "ret503" the  *)
(* return of the shutdown gate.  Date.now() does not run backwards during   *)
(* one health check.                                                        *)

IdleHealth == [pc |-> "idle", startTime |-> 0, error |-> "none", resp |-> NoResponse]

HealthReturned == {"ret503", "retHealthy", "retUnhealthy"}

\* a latency taken the wrong way round
HealthyResponse_Backwards(startTime, now) ==
    [code |-> 200,
     body |-> [status |-> JStr(Str_healthy), redis |-> JStr(Str_connected),
               latency_ms |-> JNum(startTime - now)]]

\* the body of a healthy answer (its timestamp is left out)
HealthyResponse(startTime, now) ==
    [code |-> 200,
     body |-> [status |-> JStr(Str_healthy), redis |-> JStr(Str_connected),
               latency_ms |-> JNum(now - startTime)]]

\* the body of an unhealthy answer (its error text and timestamp are left out)
UnhealthyResponse ==
    [code |-> 503,
     body |-> [status |-> JStr(Str_unhealthy), redis |-> JStr(Str_disconnected)]]

\* a gate that lets the health check through
HealthGate_Open(flag, now) ==
    [IdleHealth EXCEPT !.pc = "ping", !.startTime = now]

\* the shutdown middleware, then the handler up to await redis.ping()
HealthGate(flag, now) ==
    IF flag
    THEN [IdleHealth EXCEPT !.pc = "ret503", !.resp = ShuttingDownResponse]
    ELSE [IdleHealth EXCEPT !.pc = "ping", !.startTime = now]

\* a health check arrives on a listening server
HealthArrive(now) ==
    /\ ~exited
    /\ Serving(startPc)
    /\ health.pc = "idle"
    /\ health' = HealthGate(isShuttingDown, now)
    /\ UNCHANGED <<store, redisStatus, startPc, attempts, isShuttingDown,
                   shutPc, timer, exited, exitCode, shutSignal, req>>

\* await redis.ping() resolves
PingReply(now) ==
    /\ ~exited
    /\ health.pc = "ping"
    /\ redisStatus = "ready"
    /\ now >= health.startTime
    /\ health' = [health EXCEPT !.pc = "retHealthy",
                                !.resp = HealthyResponse(health.startTime, now)]
    /\ UNCHANGED <<store, redisStatus, startPc, attempts, isShuttingDown,
                   shutPc, timer, exited, exitCode, shutSignal, req>>

\* await redis.ping() rejects: the catch block of the health handler
PingThrow ==
    /\ ~exited
    /\ health.pc = "ping"
    /\ health' = [health EXCEPT !.pc = "retUnhealthy", !.error = "StoreError",
                                !.resp = UnhealthyResponse]
    /\ UNCHANGED <<store, redisStatus, startPc, attempts, isShuttingDown,
                   shutPc, timer, exited, exitCode, shutSignal, req>>

\* the health response has been written
HealthClose ==
    /\ ~exited
    /\ health.pc \in HealthReturned
    /\ health' = IdleHealth
    /\ UNCHANGED <<store, redisStatus, startPc, attempts, isShuttingDown,
                   shutPc, timer, exited, exitCode, shutSignal, req>>

----------------------------------------------------------------------------
(* Startup: startServer and waitForRedis *)

\* a loop that makes one attempt more
maxRetries_OneMore == 30 + 1

\* const maxRetries = 30
maxRetries == 30

\* the connection to the store comes up
RedisConnect ==
    /\ ~exited
    /\ redisStatus = "connecting"
    /\ redisStatus' = "ready"
    /\ UNCHANGED <<store, startPc, attempts, isShuttingDown, shutPc, timer,
                   exited, exitCode, req, shutSignal, health>>

\* an attempt finds the client ready and the ping answered PONG:
\* waitForRedis returns (its local attempts is gone) and startServer hands
\* out app.fetch
AttemptSucceeds ==
    /\ ~exited
    /\ startPc = "waiting"
    /\ attempts < maxRetries
    /\ redisStatus = "ready"
    /\ startPc' = "listening"
    /\ attempts' = 0
    /\ UNCHANGED <<store, redisStatus, isShuttingDown, shutPc, timer, exited,
                   exitCode, req, shutSignal, health>>

\* an attempt finds the client not ready, or its ping rejects: attempts++
\* and the retry delay
AttemptFails ==
    /\ ~exited
    /\ startPc = "waiting"
    /\ attempts < maxRetries
    /\ attempts' = attempts + 1
    /\ UNCHANGED <<store, redisStatus, startPc, isShuttingDown, shutPc,
                   timer, exited, exitCode, req, shutSignal, health>>

\* the loop is over: waitForRedis throws, startServer disconnects and exits 1
StartupGivesUp ==
    /\ ~exited
    /\ startPc = "waiting"
    /\ attempts >= maxRetries
    /\ startPc' = "failed"
    /\ redisStatus' = "end"
    /\ exited' = TRUE
    /\ exitCode' = 1
    /\ req' = [r \in Slots |-> IdleReq]
    /\ health' = IdleHealth
    /\ UNCHANGED <<store, attempts, isShuttingDown, shutPc, timer, shutSignal>>

----------------------------------------------------------------------------
(* Shutdown: gracefulShutdown and the handlers that call it *)

Triggers == {"SIGTERM", "SIGINT", "UNCAUGHT_EXCEPTION", "UNHANDLED_REJECTION"}

\* the triggers of the uncaughtException and unhandledRejection handlers
Faults == {"UNCAUGHT_EXCEPTION", "UNHANDLED_REJECTION"}

\* a gracefulShutdown that skips the grace wait when called for a fault
gracefulShutdown_NoGraceOnFault(signal) ==
    IF isShuttingDown
    THEN UNCHANGED <<isShuttingDown, shutPc, timer, shutSignal>>
    ELSE /\ isShuttingDown' = TRUE
         /\ shutSignal' = signal
         /\ timer' = "armed"
         /\ shutPc' = IF signal \in Faults THEN "quit" ELSE "grace"

\* a gracefulShutdown without the isShuttingDown guard
gracefulShutdown_Unguarded(signal) ==
    /\ isShuttingDown' = TRUE
    /\ shutSignal' = signal
    /\ timer' = "armed"
    /\ shutPc' = "grace"

\* gracefulShutdown(signal) up to its first await
gracefulShutdown(signal) ==
    IF isShuttingDown
    THEN UNCHANGED <<isShuttingDown, shutPc, timer, shutSignal>>
    ELSE /\ isShuttingDown' = TRUE
         /\ shutSignal' = signal
         /\ timer' = "armed"
         /\ shutPc' = "grace"

\* a termination signal or an uncaught fault reaches its process.on handler
Trigger(signal) ==
    /\ ~exited
    /\ gracefulShutdown(signal)
    /\ UNCHANGED <<store, redisStatus, startPc, attempts, exited, exitCode,
                   req, health>>

\* the 2 second grace wait is over: redis.quit() is issued
GraceElapsed ==
    /\ ~exited
    /\ shutPc = "grace"
    /\ shutPc' = "quit"
    /\ UNCHANGED <<store, redisStatus, startPc, attempts, isShuttingDown,
                   timer, exited, exitCode, req, shutSignal, health>>

\* a close of the store that does not wait for the grace wait to end
QuitResolves_DuringGrace ==
    /\ ~exited
    /\ shutPc \in {"grace", "quit"}
    /\ shutPc' = "done"
    /\ redisStatus' = "end"
    /\ exited' = TRUE
    /\ exitCode' = 0
    /\ req' = [r \in Slots |-> IdleReq]
    /\ health' = IdleHealth
    /\ UNCHANGED <<store, startPc, attempts, isShuttingDown, timer, shutSignal>>

\* await redis.quit() resolves: process.exit(0)
QuitResolves ==
    /\ ~exited
    /\ shutPc = "quit"
    /\ shutPc' = "done"
    /\ redisStatus' = "end"
    /\ exited' = TRUE
    /\ exitCode' = 0
    /\ req' = [r \in Slots |-> IdleReq]
    /\ health' = IdleHealth
    /\ UNCHANGED <<store, startPc, attempts, isShuttingDown, timer, shutSignal>>

\* await redis.quit() rejects: redis.disconnect() and process.exit(1)
QuitRejects ==
    /\ ~exited
    /\ shutPc = "quit"
    /\ shutPc' = "forced"
    /\ redisStatus' = "end"
    /\ exited' = TRUE
    /\ exitCode' = 1
    /\ req' = [r \in Slots |-> IdleReq]
    /\ health' = IdleHealth
    /\ UNCHANGED <<store, startPc, attempts, isShuttingDown, timer, shutSignal>>

\* the GRACEFUL_SHUTDOWN_TIMEOUT timer rejects its promise, which nothing
\* awaits: the rejection reaches the unhandledRejection handler, whose call of
\* gracefulShutdown returns at once since isShuttingDown is set
TimeoutFires ==
    /\ ~exited
    /\ timer = "armed"
    /\ shutPc = "quit"
    /\ isShuttingDown
    /\ timer' = "fired"
    /\ UNCHANGED <<store, redisStatus, startPc, attempts, isShuttingDown,
                   shutPc, exited, exitCode, req, shutSignal, health>>

----------------------------------------------------------------------------
(* Store contents.  The store belongs to an external writer and does not    *)
(* change while the service runs; a behaviour starts from any store of a    *)
(* bounded family.  The four keys of the transaction (s1, i1) vary, the     *)
(* keys of the other sites and ids hold fixed records of their own.         *)

\* {status: "pending", amount: 500}
RecA == JObj(JStr(Str_pending), JNum(500))
\* {status: "SUCCESS", amount: 100}
RecB == JObj(JStr(Str_SUCCESS), JNum(100))
\* {status: "sended", amount: 7}
RecC == JObj(JStr(Str_sended), JNum(7))
\* {status: "created", amount: 9}
RecD == JObj(JStr(Str_created), JNum(9))

FocusKeys ==
    <<ProviderKey("i1"),
      LegacyKey("deposit", "s1", "i1"),
      LegacyKey("withdraw", "s1", "i1"),
      LegacyKey("settlement", "s1", "i1")>>

\* the keys of the other transactions
OtherValue(k) ==
    CASE k = ProviderKey("i2") -> NullReply
      [] k = LegacyKey("deposit", "s1", "i2") -> Garbage
      [] k = LegacyKey("withdraw", "s1", "i2") -> Stringify(RecC)
      [] k = LegacyKey("settlement", "s1", "i2") -> Stringify(RecD)
      [] k = LegacyKey("settlement", "s2", "i1") -> Stringify(RecD)
      [] OTHER -> NullReply

\* the store whose focus keys hold f[1..4]
StoreOf(f) ==
    [k \in Keys |->
        IF \E j \in 1..Len(FocusKeys) : FocusKeys[j] = k
        THEN f[CHOOSE j \in 1..Len(FocusKeys) : FocusKeys[j] = k]
        ELSE OtherValue(k)]

\* statuses and amounts a stored record may carry
StatusValues ==
    {JUndef, JNull, JNum(5), JNum(0), JBool(TRUE)}
    \cup {JStr(s) : s \in {Str_empty, Str_created, Str_CREATED, Str_Created,
                           Str_pending, Str_SUCCESS, Str_sended, Str_Sended,
                           Str_successed}}

AmountValues ==
    {JUndef, JNull, JNum(0), JNum(500), JNum(100), JStr(Str_500), JBool(TRUE)}

\* every reply a key may give
RichValues ==
    {NullReply, EmptyText, Garbage}
    \cup {Stringify(j) : j \in {JNull, JBool(FALSE), JNum(0), JStr(Str_empty),
                                JNum(5), JBool(TRUE), JStr(Str_500)}}
    \cup {Stringify(JObj(st, am)) : st \in StatusValues, am \in AmountValues}

\* the replies combined freely over the four focus keys
PriorityValues ==
    {NullReply, EmptyText, Garbage, Stringify(JNull), Stringify(JNum(0)),
     Stringify(RecA), Stringify(RecB)}

\* stores for the key resolution: the four focus keys vary together
PriorityStores ==
    {StoreOf(f) : f \in [1..Len(FocusKeys) -> PriorityValues]}

\* stores for the record handling: one focus key holds any value
RecordStores ==
    {StoreOf([j \in 1..Len(FocusKeys) |-> IF j = n THEN x ELSE NullReply]) :
        n \in 1..Len(FocusKeys), x \in RichValues}

\* the ids requested while the whole process runs
LifecycleIds == {"i1"}

\* stores for the process lifecycle: nothing stored; a deposit record; a
\* provider record over a legacy one; a record behind two unparseable values;
\* a record whose status is a number
LifecycleStores ==
    {StoreOf(<<NullReply, NullReply, NullReply, NullReply>>),
     StoreOf(<<NullReply, Stringify(RecA), NullReply, NullReply>>),
     StoreOf(<<Stringify(RecB), Stringify(RecA), NullReply, NullReply>>),
     StoreOf(<<Garbage, EmptyText, NullReply, Stringify(RecA)>>),
     StoreOf(<<Stringify(JObj(JNum(5), JNum(500))), NullReply, NullReply, NullReply>>)}

----------------------------------------------------------------------------
(* Specifications *)

InitProcess ==
    /\ redisStatus = "connecting"
    /\ startPc = "waiting"
    /\ attempts = 0
    /\ isShuttingDown = FALSE
    /\ shutPc = "idle"
    /\ timer = "none"
    /\ exited = FALSE
    /\ exitCode = 0
    /\ shutSignal = "none"
    /\ req = [r \in Slots |-> IdleReq]
    /\ health = IdleHealth

Init ==
    /\ store \in LifecycleStores
    /\ InitProcess

Next ==
    \/ RedisConnect
    \/ AttemptSucceeds
    \/ AttemptFails
    \/ StartupGivesUp
    \/ \E signal \in Triggers : Trigger(signal)
    \/ GraceElapsed
    \/ QuitResolves
    \/ QuitRejects
    \/ TimeoutFires
    \/ \E r \in Slots, site \in Sites, id \in LifecycleIds : Arrive(r, site, id)
    \/ \E r \in Slots : GetReply(r)
    \/ \E r \in Slots : GetThrow(r)
    \/ \E r \in Slots : Close(r)

\* the whole process with concurrent business requests over a small family
\* of stores
Spec == Init /\ [][Next]_vars

InitRoutes ==
    /\ store = StoreOf(<<NullReply, Stringify(RecA), NullReply, NullReply>>)
    /\ InitProcess

NextRoutes ==
    \/ RedisConnect
    \/ AttemptSucceeds
    \/ AttemptFails
    \/ StartupGivesUp
    \/ \E signal \in Triggers : Trigger(signal)
    \/ GraceElapsed
    \/ QuitResolves
    \/ QuitRejects
    \/ TimeoutFires
    \/ Arrive(1, "s1", "i1")
    \/ GetReply(1)
    \/ GetThrow(1)
    \/ Close(1)
    \/ \E now \in Clock : HealthArrive(now)
    \/ \E now \in Clock : PingReply(now)
    \/ PingThrow
    \/ HealthClose

\* the whole process with both routes, one request of each at a time, over
\* one store
SpecRoutes == InitRoutes /\ [][NextRoutes]_vars

InitLookup ==
    /\ store \in PriorityStores \cup RecordStores
    /\ InitProcess

NextLookup ==
    \/ RedisConnect
    \/ AttemptSucceeds
    \/ \E site \in Sites, id \in Ids : Arrive(1, site, id)
    \/ GetReply(1)
    \/ GetThrow(1)
    \/ Close(1)

\* one request at a time on a started server, over a large family of stores
SpecLookup == InitLookup /\ [][NextLookup]_vars

----------------------------------------------------------------------------
(* Vocabulary of the properties *)

\* the request was answered by the route handler (not by the shutdown gate)
Handled(q) == q.pc \in {"retFound", "retNotFound", "retError"}

\* every read of the request was answered by the store
ReadsAnswered(q) == q.error # "StoreError"

\* the candidate keys of a request in priority order
Candidates(site, id) ==
    <<ProviderKey(id), LegacyKey("deposit", site, id),
      LegacyKey("withdraw", site, id), LegacyKey("settlement", site, id)>>

\* the key holds no value
Missing(k) == store[k] = NullReply

\* the key holds a string that is not JSON
Malformed(k) == store[k].t = "text" /\ ~store[k].wf

\* the key holds a string that parses
Parseable(k) == store[k].t = "text" /\ store[k].wf

\* the key holds a JSON object
HoldsRecord(k) == Parseable(k) /\ store[k].json.t = "object"

\* the record is an object with a string status and a non-zero numeric amount
WellFormed(j) ==
    /\ j.t = "object"
    /\ j.v.status.t = "string"
    /\ j.v.amount.t = "number"
    /\ j.v.amount.v # 0

\* s is t up to the case of its letters (t in lower case)
SameFolded(s, t) ==
    /\ Len(s) = Len(t)
    /\ \A k \in 1..Len(t) : s[k] = t[k] \/ (s[k] = t[k] - 32 /\ s[k] >= 65 /\ s[k] <= 90)

\* the normalised status of each status string the stores carry
ExpectedStatus(s) ==
    CASE s = Str_empty -> Str_pending
      [] s = Str_created -> Str_pending
      [] s = Str_CREATED -> Str_pending
      [] s = Str_Created -> Str_pending
      [] s = Str_pending -> Str_pending
      [] s = Str_SUCCESS -> Str_success
      [] s = Str_sended -> Str_sended
      [] s = Str_Sended -> Str_sended
      [] s = Str_successed -> Str_successed

\* the envelope {status:true, message:"", data:{status:"pending", amount:0}}
PendingZero ==
    [code |-> 200,
     body |-> [status |-> JBool(TRUE), message |-> JStr(<<>>),
               data |-> JObj(JStr(Str_pending), JNum(0))]]

----------------------------------------------------------------------------
(* Properties *)

\* C1: a request the handler answers, for a (site, id) none of whose four
\* candidate keys holds a value, gets HTTP 200 and exactly
\* {status:true, message:"", data:{status:"pending", amount:0}}.
C1_NotFoundIsPendingZero ==
    \A r \in Slots :
        (/\ Handled(req[r])
         /\ \A n \in 1..4 : Missing(Candidates(req[r].site, req[r].id)[n]))
        => req[r].resp = PendingZero

C1_Witness ==
    \E r \in Slots :
        /\ req[r].pc = "retNotFound"
        /\ \A n \in 1..4 : Missing(Candidates(req[r].site, req[r].id)[n])

\* C2: when the selected record has a string status s and a non-zero numeric
\* amount a, the answer is HTTP 200, status true, message "", data.status the
\* normalised s and data.amount a; a record {status:"pending", amount:500}
\* under the deposit key with no provider value gives data {pending, 500}.
C2_FoundRecordIsReturned ==
    \A r \in Slots :
        LET q == req[r]
        IN /\ (Handled(q) /\ WellFormed(q.transaction))
              => /\ q.pc = "retFound"
                 /\ q.resp.code = 200
                 /\ q.resp.body.status = JBool(TRUE)
                 /\ q.resp.body.message = JStr(<<>>)
                 /\ q.resp.body.data =
                        JObj(JStr(ExpectedStatus(q.transaction.v.status.v)),
                             JNum(q.transaction.v.amount.v))
           /\ (/\ Handled(q)
               /\ ReadsAnswered(q)
               /\ Missing(ProviderKey(q.id))
               /\ store[LegacyKey("deposit", q.site, q.id)] = Stringify(RecA))
              => q.resp.body.data = JObj(JStr(Str_pending), JNum(500))

C2_Witness ==
    \E r \in Slots :
        /\ req[r].pc = "retFound"
        /\ Missing(ProviderKey(req[r].id))
        /\ req[r].foundKey = LegacyKey("deposit", req[r].site, req[r].id)
        /\ req[r].transaction = RecA
        /\ req[r].resp.body.data = JObj(JStr(Str_pending), JNum(500))

\* C3: when the provider key and a legacy key of the request both hold a
\* record and the reads are answered, the provider record is the one selected
\* (no legacy read is issued) and the response is built from it, for every
\* site and legacy type.
C3_ProviderRecordWins ==
    \A r \in Slots :
        LET q == req[r]
            pk == ProviderKey(q.id)
        IN (/\ Handled(q)
            /\ ReadsAnswered(q)
            /\ HoldsRecord(pk)
            /\ \E n \in 2..4 : HoldsRecord(Candidates(q.site, q.id)[n]))
           => /\ q.foundKey = pk
              /\ q.transaction = store[pk].json
              /\ q.i = 0
              /\ WellFormed(store[pk].json)
                 => q.resp.body.data =
                        JObj(JStr(ExpectedStatus(store[pk].json.v.status.v)),
                             store[pk].json.v.amount)

C3_Witness ==
    \E r \in Slots :
        LET q == req[r]
        IN /\ q.pc = "retFound"
           /\ q.site = "s2"
           /\ store[ProviderKey(q.id)] = Stringify(RecB)
           /\ HoldsRecord(LegacyKey("settlement", q.site, q.id))
           /\ q.resp.body.data = JObj(JStr(Str_success), JNum(100))

\* the first legacy position (2..4) whose key holds a string that parses, or 0
FirstParseableLegacy(site, id) ==
    IF \E n \in 2..4 : Parseable(Candidates(site, id)[n])
    THEN CHOOSE n \in 2..4 :
            /\ Parseable(Candidates(site, id)[n])
            /\ \A m \in 2..(n - 1) : ~Parseable(Candidates(site, id)[m])
    ELSE 0

\* C4: when the provider key holds no value (or nothing that parses) and the
\* reads are answered, the legacy keys are tried in the order deposit, withdraw,
\* settlement and the first that holds a parseable value is the one selected:
\* no later type is read, and with records under several types the response is
\* built from the earliest of them.
C4_LegacyOrder ==
    \A r \in Slots :
        LET q == req[r]
            n == FirstParseableLegacy(q.site, q.id)
            k == Candidates(q.site, q.id)[n]
        IN (/\ Handled(q)
            /\ ReadsAnswered(q)
            /\ ~Parseable(ProviderKey(q.id))
            /\ n # 0)
           => /\ q.foundKey = k
              /\ q.transaction = store[k].json
              /\ q.i = n - 1
              /\ WellFormed(store[k].json)
                 => q.resp.body.data =
                        JObj(JStr(ExpectedStatus(store[k].json.v.status.v)),
                             store[k].json.v.amount)

C4_Witness ==
    \E r \in Slots :
        LET q == req[r]
        IN /\ q.pc = "retFound"
           /\ Missing(ProviderKey(q.id))
           /\ Missing(LegacyKey("deposit", q.site, q.id))
           /\ store[LegacyKey("withdraw", q.site, q.id)] = Stringify(RecB)
           /\ store[LegacyKey("settlement", q.site, q.id)] = Stringify(RecA)
           /\ q.resp.body.data = JObj(JStr(Str_success), JNum(100))

\* the first position (1..4) whose key holds a record, or 0
FirstRecord(site, id) ==
    IF \E n \in 1..4 : HoldsRecord(Candidates(site, id)[n])
    THEN CHOOSE n \in 1..4 :
            /\ HoldsRecord(Candidates(site, id)[n])
            /\ \A m \in 1..(n - 1) : ~HoldsRecord(Candidates(site, id)[m])
    ELSE 0

\* C5: an unparseable value is a miss for its key only.  With the reads
\* answered: a record all of whose earlier candidates are missing or malformed
\* is the one selected and returned; when every candidate is missing or
\* malformed the answer is the not-found envelope; and no parse failure ever
\* reaches the catch block.
C5_MalformedIsAMiss ==
    \A r \in Slots :
        LET q == req[r]
            c == Candidates(q.site, q.id)
            n == FirstRecord(q.site, q.id)
        IN /\ (/\ Handled(q)
               /\ ReadsAnswered(q)
               /\ n # 0
               /\ \A m \in 1..(n - 1) : Missing(c[m]) \/ Malformed(c[m]))
              => /\ q.foundKey = c[n]
                 /\ q.transaction = store[c[n]].json
                 /\ WellFormed(store[c[n]].json)
                    => /\ q.pc = "retFound"
                       /\ q.resp.body.data =
                            JObj(JStr(ExpectedStatus(store[c[n]].json.v.status.v)),
                                 store[c[n]].json.v.amount)
           /\ (/\ Handled(q)
               /\ ReadsAnswered(q)
               /\ \A m \in 1..4 : Missing(c[m]) \/ Malformed(c[m]))
              => /\ q.pc = "retNotFound"
                 /\ q.resp = PendingZero
           /\ Handled(q) => q.resp.code = 200
           /\ q.pc = "retError" => q.error \in {"StoreError", "TypeError"}

C5_Witness ==
    \E r \in Slots :
        LET q == req[r]
            c == Candidates(q.site, q.id)
        IN /\ q.pc = "retFound"
           /\ store[c[1]] = Garbage
           /\ store[c[2]] = Garbage
           /\ store[c[3]] = EmptyText
           /\ store[c[4]] = Stringify(RecA)
           /\ q.resp.body.data = JObj(JStr(Str_pending), JNum(500))

\* a second case of C5: every candidate unparseable
C5_WitnessAllMalformed ==
    \E r \in Slots :
        /\ req[r].pc = "retNotFound"
        /\ \A m \in 1..4 : Malformed(Candidates(req[r].site, req[r].id)[m])

\* the request returned from the found branch with a string status
FoundWithStringStatus(q) ==
    /\ q.pc = "retFound"
    /\ Prop(q.transaction, "status").t = "string"

\* C6: a found record whose status is "created" up to case gets data.status
\* "pending" whatever its amount, and a found record with any other non-empty
\* status string gets "pending" only if that string is "pending" up to case.
C6_CreatedIsPending ==
    \A r \in Slots :
        LET q == req[r]
            s == Prop(q.transaction, "status").v
        IN FoundWithStringStatus(q)
           => /\ SameFolded(s, Str_created)
                 => q.resp.body.data.v.status = JStr(Str_pending)
              /\ (~SameFolded(s, Str_created) /\ s # <<>>)
                 => (q.resp.body.data.v.status = JStr(Str_pending)
                        => SameFolded(s, Str_pending))

C6_Witness ==
    \E r \in Slots :
        LET q == req[r]
        IN /\ q.pc = "retFound"
           /\ q.transaction = JObj(JStr(Str_CREATED), JStr(Str_500))
           /\ q.resp.body.data.v.status = JStr(Str_pending)

\* C7: data.status of a found record is "pending" when the record has no
\* status or an empty one, and otherwise, unless the status is "created" up to
\* case, the status string with each upper-case letter replaced by its
\* lower-case letter and nothing else changed: "SUCCESS" gives "success",
\* "sended" gives "sended", "successed" gives "successed".
C7_StatusIsLowerCased ==
    \A r \in Slots :
        LET q == req[r]
            st == Prop(q.transaction, "status")
            out == q.resp.body.data.v.status
        IN q.pc = "retFound"
           => /\ st.t \in {"undefined", "null"} => out = JStr(Str_pending)
              /\ st = JStr(<<>>) => out = JStr(Str_pending)
              /\ (st.t = "string" /\ st.v # <<>> /\ ~SameFolded(st.v, Str_created))
                 => /\ out.t = "string"
                    /\ SameFolded(st.v, out.v)
                    /\ \A k \in 1..Len(out.v) : ~(out.v[k] >= 65 /\ out.v[k] <= 90)
              /\ st = JStr(Str_SUCCESS) => out = JStr(Str_success)
              /\ st = JStr(Str_sended) => out = JStr(Str_sended)
              /\ st = JStr(Str_successed) => out = JStr(Str_successed)

C7_Witness ==
    \E r \in Slots :
        /\ req[r].pc = "retFound"
        /\ Prop(req[r].transaction, "status") = JStr(Str_SUCCESS)
        /\ req[r].resp.body.data.v.status = JStr(Str_success)

\* a second case of C7: a record without a status
C7_WitnessAbsent ==
    \E r \in Slots :
        /\ req[r].pc = "retFound"
        /\ Prop(req[r].transaction, "status") = JUndef
        /\ req[r].resp.body.data.v.status = JStr(Str_pending)

\* C8: a request one of whose store reads fails is answered HTTP 200 with
\* {status:true, message:"", data:{status:"pending", amount:0}}, and no
\* response of the handler, the catch block's included, has another status
\* code than 200.
C8_ReadFailureIsPendingZero ==
    \A r \in Slots :
        /\ req[r].pc = "retError" => req[r].resp = PendingZero
        /\ Handled(req[r]) => req[r].resp.code = 200

C8_Witness ==
    \E r \in Slots :
        /\ req[r].pc = "retError"
        /\ req[r].error = "StoreError"
        /\ req[r].i = 2
        /\ req[r].resp.code = 200

\* a second case of C8: the failure is the TypeError of the normalisation
C8_WitnessTypeError ==
    \E r \in Slots :
        /\ req[r].pc = "retError"
        /\ req[r].error = "TypeError"
        /\ req[r].resp = PendingZero

\* C9 as stated: every response of the business endpoint, the one given while
\* a shutdown is in progress included, has status true and message "".
C9_EveryResponseIsEnvelope ==
    \A r \in Slots :
        req[r].pc \in Returned
        => /\ req[r].resp.body.status = JBool(TRUE)
           /\ req[r].resp.body.message = JStr(<<>>)

\* C9 amended: every response of the route handler (found, not found, internal
\* error) has status true and message ""; the response of the shutdown gate is
\* HTTP 503 with status "error" and message "Service is shutting down".
C9_HandlerResponseIsEnvelope ==
    \A r \in Slots :
        /\ Handled(req[r])
           => /\ req[r].resp.body.status = JBool(TRUE)
              /\ req[r].resp.body.message = JStr(<<>>)
        /\ req[r].pc = "ret503"
           => /\ req[r].resp.code = 503
              /\ req[r].resp.body.status = JStr(Str_error)
              /\ req[r].resp.body.message = JStr(Str_shutting)

C9_Witness ==
    /\ isShuttingDown
    /\ \E r \in Slots : req[r].pc = "retFound"
    /\ \E r \in Slots : req[r].pc = "ret503"

\* C10: once isShuttingDown is set it stays set, and every request that
\* arrives while it is set is answered by the gate with HTTP 503, never
\* reaches a store read, and ends there.
C10_ShutdownRejects ==
    /\ [][isShuttingDown => isShuttingDown']_vars
    /\ [][\A r \in Slots :
            /\ (isShuttingDown /\ req[r].pc = "idle" /\ req'[r].pc # "idle")
               => /\ req'[r].pc = "ret503"
                  /\ req'[r].resp.code = 503
            /\ req[r].pc = "ret503" => req'[r].pc \in {"ret503", "idle"}]_vars

C10_Witness ==
    /\ isShuttingDown
    /\ shutPc = "quit"
    /\ \E r \in Slots : req[r].pc = "ret503" /\ req[r].resp.code = 503

\* C11: lookups are read-only and idempotent.  No step of the service
\* changes a key of the store, and two requests for the same transaction
\* whose reads were all answered get the same response.
C11_LookupsReadOnlyIdempotent ==
    /\ [][store' = store]_vars
    /\ [](\A r1, r2 \in Slots :
            (/\ Handled(req[r1]) /\ Handled(req[r2])
             /\ ReadsAnswered(req[r1]) /\ ReadsAnswered(req[r2])
             /\ req[r1].site = req[r2].site /\ req[r1].id = req[r2].id)
            => req[r1].resp = req[r2].resp)

\* two requests for the same stored transaction have both been answered
C11_Witness ==
    /\ req[1].pc = "retFound" /\ req[2].pc = "retFound"
    /\ req[1].site = req[2].site /\ req[1].id = req[2].id
    /\ req[1].resp = req[2].resp

\* the steps of gracefulShutdown in their order
ShutRank(pc) ==
    CASE pc = "idle" -> 0
      [] pc = "grace" -> 1
      [] pc = "quit" -> 2
      [] pc \in {"done", "forced"} -> 3

\* C12: a trigger that arrives while a shutdown is in progress is a no-op.
\* It changes nothing; the running shutdown keeps its signal, never goes
\* back to an earlier step (no second grace wait, no second close), its
\* timer is not armed again, and the store is closed and the process exits
\* at most once.
C12_SecondTriggerIsNoOp ==
    /\ [][(isShuttingDown /\ \E signal \in Triggers : Trigger(signal))
            => UNCHANGED vars]_vars
    /\ [][isShuttingDown
            => /\ isShuttingDown'
               /\ shutSignal' = shutSignal
               /\ ShutRank(shutPc') >= ShutRank(shutPc)
               /\ (timer = "fired" => timer' = "fired")]_vars
    /\ [][redisStatus = "end" => redisStatus' = "end"]_vars
    /\ [][exited => UNCHANGED vars]_vars

\* redis.quit() is pending and the rejection of the timeout promise has
\* called gracefulShutdown a second time
C12_Witness ==
    /\ isShuttingDown /\ ~exited
    /\ shutPc = "quit"
    /\ timer = "fired"

\* C13: a shutdown that has not completed when the GRACEFUL_SHUTDOWN_TIMEOUT
\* timer fires is forced: once the timer has fired the store client is
\* disconnected and the process has exited with a non-zero code.
C13_TimeoutForcesExit ==
    timer = "fired" => (exited /\ exitCode # 0 /\ redisStatus = "end")

\* C14: startup gating.  A request of either route is in the hands of the
\* service only while the server is listening, and the server starts to
\* listen only from the readiness loop, at an attempt that found the store
\* client ready.
C14_StartupGating ==
    /\ []((health.pc # "idle" \/ \E r \in Slots : req[r].pc # "idle")
            => startPc = "listening")
    /\ [][(startPc # "listening" /\ startPc' = "listening")
            => (startPc = "waiting" /\ redisStatus = "ready"
                /\ attempts < maxRetries)]_vars

\* both routes have a request waiting for the store
C14_Witness ==
    /\ startPc = "listening"
    /\ health.pc = "ping"
    /\ req[1].pc = "getProvider"

\* C15: the readiness loop is bounded.  It counts its failed attempts one by
\* one and never makes more than 30; startup fails only after exactly 30
\* failed attempts, and then the store client is disconnected and the
\* process has exited with code 1 with no request ever taken; once an
\* attempt has succeeded no further attempt is made and startup cannot fail.
C15_StartupBounded ==
    /\ [](attempts <= 30)
    /\ [](startPc = "failed"
            => /\ attempts = 30
               /\ exited /\ exitCode = 1
               /\ redisStatus = "end"
               /\ health.pc = "idle" /\ \A r \in Slots : req[r].pc = "idle")
    /\ [][(startPc = "waiting" /\ startPc' = "waiting" /\ attempts' # attempts)
            => attempts' = attempts + 1]_vars
    /\ [][startPc = "listening"
            => (startPc' = "listening" /\ attempts' = attempts)]_vars
    /\ [][startPc = "failed" => startPc' = "failed"]_vars

\* the store never became ready: 30 attempts failed and the process is gone
C15_Witness ==
    /\ startPc = "failed"
    /\ attempts = 30
    /\ redisStatus = "end"
    /\ exited /\ exitCode = 1
    /\ ~isShuttingDown

\* C16: GET /health on a server that is not shutting down.  When the ping is
\* answered the response is 200 with status "healthy", redis "connected" and
\* a latency_ms that is a non-negative integer; when the ping fails it is 503
\* with status "unhealthy" and redis "disconnected".  The await of the ping
\* ends in one of these two returns, and a failed ping neither starts a
\* shutdown nor ends the process.
C16_HealthEndpoint ==
    /\ [](health.pc = "retHealthy"
            => /\ health.error = "none"
               /\ health.resp.code = 200
               /\ health.resp.body.status = JStr(Str_healthy)
               /\ health.resp.body.redis = JStr(Str_connected)
               /\ health.resp.body.latency_ms.t = "number"
               /\ health.resp.body.latency_ms.v \in Nat)
    /\ [](health.pc = "retUnhealthy"
            => /\ health.error = "StoreError"
               /\ health.resp.code = 503
               /\ health.resp.body.status = JStr(Str_unhealthy)
               /\ health.resp.body.redis = JStr(Str_disconnected))
    /\ [][(health.pc = "ping" /\ health'.pc # "ping" /\ ~exited')
            => health'.pc \in {"retHealthy", "retUnhealthy"}]_vars
    /\ [][(health.pc = "ping" /\ health'.pc = "retUnhealthy")
            => (isShuttingDown' = isShuttingDown /\ shutPc' = shutPc
                /\ ~exited')]_vars

\* a ping that took one tick of the clock has been answered
C16_Witness ==
    /\ health.pc = "retHealthy"
    /\ health.resp.code = 200
    /\ health.resp.body.latency_ms = JNum(1)

\* a ping has failed
C16_WitnessUnhealthy ==
    /\ health.pc = "retUnhealthy"
    /\ health.resp.code = 503

\* C17: an uncaught exception or an unhandled rejection with no shutdown in
\* progress starts the shutdown sequence of a signal.  The step sets the
\* flag, arms the timer and enters the grace wait without ending the
\* process; from then on requests that arrive get the 503 of the gate, the
\* steps follow in order (grace wait, close of the store), and the process
\* exits only from the close of the store.
C17_FaultStartsShutdown ==
    /\ [][(~isShuttingDown /\ \E fault \in Faults : Trigger(fault))
            => /\ isShuttingDown'
               /\ shutSignal' \in Faults
               /\ shutPc' = "grace"
               /\ timer' = "armed"
               /\ ~exited']_vars
    /\ [](shutSignal \in Faults => isShuttingDown)
    /\ [][(shutSignal \in Faults)
            => (\/ shutPc' = shutPc
                \/ (shutPc = "grace" /\ shutPc' = "quit")
                \/ (shutPc = "quit" /\ shutPc' \in {"done", "forced"}))]_vars
    /\ [][(shutSignal \in Faults /\ ~exited /\ exited')
            => (\/ (shutPc = "quit" /\ redisStatus' = "end")
                \/ startPc' = "failed")]_vars
    /\ [][(shutSignal \in Faults)
            => \A r \in Slots :
                 (req[r].pc = "idle" /\ req'[r].pc # "idle")
                 => req'[r].resp = ShuttingDownResponse]_vars

\* a shutdown started by an uncaught exception has run to its end
C17_Witness ==
    /\ shutSignal = "UNCAUGHT_EXCEPTION"
    /\ shutPc = "done"
    /\ redisStatus = "end"
    /\ exited /\ exitCode = 0

\* a request has met the gate of a shutdown started by an unhandled rejection
C17_WitnessRejected ==
    /\ shutSignal = "UNHANDLED_REJECTION"
    /\ \E r \in Slots : req[r].pc = "ret503"

\* C18: the order of a shutdown.  The flag is set before anything else of
\* gracefulShutdown runs; its steps are taken one after the other (flag and
\* grace wait, close of the store, exit); the store client is closed by a
\* shutdown only with the flag set and the grace wait over; the process
\* exits only with the store client closed, and with code 0 only after
\* redis.quit() has resolved.
C18_ShutdownOrder ==
    /\ [](shutPc # "idle" => isShuttingDown)
    /\ [][(shutPc' # shutPc)
            => (\/ (shutPc = "idle" /\ shutPc' = "grace" /\ isShuttingDown')
                \/ (shutPc = "grace" /\ shutPc' = "quit")
                \/ (shutPc = "quit" /\ shutPc' \in {"done", "forced"}))]_vars
    /\ [][(redisStatus # "end" /\ redisStatus' = "end" /\ startPc' # "failed")
            => (isShuttingDown /\ shutPc = "quit")]_vars
    /\ [](exited => redisStatus = "end")
    /\ []((exited /\ exitCode = 0) => shutPc = "done")
    /\ [](shutPc = "forced" => (exited /\ exitCode = 1))

\* a SIGTERM on a listening server has been followed to its exit with code 0
C18_Witness ==
    /\ startPc = "listening"
    /\ shutSignal = "SIGTERM"
    /\ isShuttingDown
    /\ shutPc = "done"
    /\ redisStatus = "end"
    /\ exited /\ exitCode = 0

C20_AmountIsNumberOrZero ==
    \A r \in Slots :
        req[r].pc = "retFound"
        => LET a == Prop(req[r].transaction, "amount")
               out == req[r].resp.body.data.v.amount
           IN /\ out.t = "number"
              /\ out = IF a.t = "number" THEN a ELSE JNum(0)

\* the position (1..4) in the priority order of the read a request waits for
ReadPos(q) == IF q.pc = "getProvider" THEN 1 ELSE q.i + 1

\* C21: the candidate keys are read one after the other in the order compay,
\* deposit, withdraw, settlement.  The read a request waits for is the one of
\* its position; a request starts with the first key; it goes from a read to
\* the read of the next position only, and only when the store has answered
\* the pending one; and it issues no further read once a key has yielded a
\* record.
C21_SequentialReads ==
    /\ [](\A r \in Slots :
            req[r].pc \in Awaiting
            => (/\ ReadPos(req[r]) \in 1..4
                /\ CurrentKey(req[r])
                     = Candidates(req[r].site, req[r].id)[ReadPos(req[r])]))
    /\ [][\A r \in Slots :
            (req[r].pc = "idle" /\ req'[r].pc \in Awaiting)
            => ReadPos(req'[r]) = 1]_vars
    /\ [][\A r \in Slots :
            (req[r].pc \in Awaiting /\ req'[r].pc \in Awaiting /\ req'[r] # req[r])
            => (/\ redisStatus = "ready"
                /\ ReadPos(req'[r]) = ReadPos(req[r]) + 1
                /\ ~HoldsRecord(CurrentKey(req[r])))]_vars
    /\ [][\A r \in Slots :
            req[r].pc \in Returned => req'[r].pc \notin Awaiting]_vars

\* three reads have been answered and the fourth, of the settlement key, is
\* outstanding
C21_Witness ==
    /\ req[1].pc = "getLegacy"
    /\ req[1].i = 3
    /\ CurrentKey(req[1]) = <<"kob:transaction", "settlement", req[1].site, req[1].id>>

\* the number of reads a request has issued: none before the handler runs,
\* else the provider read and one per legacy type the loop has reached
ReadsIssued(q) == IF q.pc \in {"idle", "ret503"} THEN 0 ELSE q.i + 1

\* C22 as stated: no request issues more than two reads.
C22_AtMostTwoReads ==
    \A r \in Slots : ReadsIssued(req[r]) <= 2

\* C22, amended: no request issues more than four reads, and a request that
\* is answered not-found without any of its reads having given a value that
\* parses has issued exactly four.
C22_AtMostFourReads ==
    \A r \in Slots :
        /\ ReadsIssued(req[r]) <= 4
        /\ (req[r].pc = "retNotFound" /\ req[r].foundKey = <<>>)
           => ReadsIssued(req[r]) = 4

\* a request has read all four keys and found nothing
C22_Witness ==
    /\ req[1].pc = "retNotFound"
    /\ ReadsAnswered(req[1])
    /\ ReadsIssued(req[1]) = 4
    /\ \A n \in 1..4 : Missing(Candidates(req[1].site, req[1].id)[n])

\* the position (1..4) of the key whose value a request that runs alone
\* selects, or 0: the first key that holds a value that parses, a falsy one at
\* the provider key not counting
SoloSelected(site, id) ==
    LET c == Candidates(site, id)
        selects(n) == Parseable(c[n]) /\ (n = 1 => JsTruthy(store[c[n]].json))
    IN IF \E n \in 1..4 : selects(n)
       THEN CHOOSE n \in 1..4 : selects(n) /\ \A m \in 1..(n - 1) : ~selects(m)
       ELSE 0

\* the response of a request for (site, id) that runs alone and has its reads
\* answered
SoloResponse(site, id) ==
    LET n == SoloSelected(site, id)
        j == store[Candidates(site, id)[n]].json
    IN IF n = 0 \/ ~JsTruthy(j)
       THEN PendingZero
       ELSE IF j.t # "object"
            THEN PendingZero
            ELSE IF j.v.status.t \notin {"undefined", "null", "string"}
                 THEN PendingZero
                 ELSE [code |-> 200,
                       body |-> [status |-> JBool(TRUE), message |-> JStr(<<>>),
                                 data |-> JObj(JStr(IF j.v.status.t = "string"
                                                    THEN ExpectedStatus(j.v.status.v)
                                                    ELSE Str_pending),
                                               IF JsTruthy(j.v.amount)
                                               THEN j.v.amount
                                               ELSE JNum(0))]]

\* C23: concurrent requests do not interfere.  Whatever the interleaving of
\* the reads of the requests in flight, a request whose reads were answered
\* gets the response it would get alone; a step of one request changes no
\* other request and none of the variables the requests share.
C23_NoInterference ==
    /\ [](\A r \in Slots :
            (Handled(req[r]) /\ ReadsAnswered(req[r]))
            => req[r].resp = SoloResponse(req[r].site, req[r].id))
    /\ [][\A r \in Slots :
            (req'[r] # req[r] /\ ~exited')
            => (/\ \A other \in Slots \ {r} : req'[other] = req[other]
                /\ UNCHANGED <<store, redisStatus, startPc, attempts,
                               isShuttingDown, shutPc, timer, shutSignal>>)]_vars

\* two requests for different sites, their reads interleaved, have both been
\* answered, each with its own record
C23_Witness ==
    /\ req[1].pc = "retFound" /\ req[2].pc = "retFound"
    /\ req[1].site = "s1" /\ req[2].site = "s2"
    /\ req[1].resp # req[2].resp
    /\ req[1].resp = SoloResponse("s1", req[1].id)
    /\ req[2].resp = SoloResponse("s2", req[2].id)

\* the key holds a string that parses to a falsy value (null, false, 0, "")
HoldsFalsy(k) == Parseable(k) /\ ~JsTruthy(store[k].json)

\* C24: a falsy value that parses at a legacy key ends the legacy search.
\* With the reads answered: when the search reaches a legacy key that holds
\* such a value, no later key is read and the answer is the not-found
\* envelope, whatever the later keys hold; the same value at the provider key
\* does not end the search, and a record under the deposit key behind it is
\* returned.
C24_FalsyParseEndsLegacySearch ==
    \A r \in Slots :
        LET q == req[r]
            c == Candidates(q.site, q.id)
        IN (Handled(q) /\ ReadsAnswered(q))
           => /\ \A n \in 2..4 :
                   (/\ ~(Parseable(c[1]) /\ JsTruthy(store[c[1]].json))
                    /\ \A m \in 2..(n - 1) : ~Parseable(c[m])
                    /\ HoldsFalsy(c[n]))
                   => (/\ q.pc = "retNotFound"
                       /\ q.resp = PendingZero
                       /\ ReadsIssued(q) = n)
              /\ (/\ HoldsFalsy(c[1])
                  /\ HoldsRecord(c[2])
                  /\ WellFormed(store[c[2]].json))
                 => (/\ q.pc = "retFound"
                     /\ ReadsIssued(q) = 2
                     /\ q.resp.body.data =
                          JObj(JStr(ExpectedStatus(store[c[2]].json.v.status.v)),
                               store[c[2]].json.v.amount))

\* a falsy value under the deposit key has hidden a record under the
\* withdraw key
C24_Witness ==
    LET c == Candidates(req[1].site, req[1].id)
    IN /\ req[1].pc = "retNotFound"
       /\ ReadsAnswered(req[1])
       /\ ReadsIssued(req[1]) = 2
       /\ HoldsFalsy(c[2])
       /\ HoldsRecord(c[3]) /\ WellFormed(store[c[3]].json)

\* a falsy value under the provider key has not hidden the deposit record
C24_WitnessProvider ==
    LET c == Candidates(req[1].site, req[1].id)
    IN /\ req[1].pc = "retFound"
       /\ HoldsFalsy(c[1])
       /\ HoldsRecord(c[2])
       /\ req[1].foundKey = c[2]

\* C25: a selected record whose status is present and not a string makes the
\* normalisation throw.  With the reads answered, when the value the
\* resolution selects is an object whose status is a number, a boolean or an
\* object, the request ends in the catch block with a TypeError and is
\* answered HTTP 200 with data {status:"pending", amount:0}, whatever amount
\* the record holds.
C25_NonStringStatusIsError ==
    \A r \in Slots :
        LET q == req[r]
            n == SoloSelected(q.site, q.id)
            j == store[Candidates(q.site, q.id)[n]].json
        IN (/\ Handled(q) /\ ReadsAnswered(q)
            /\ n # 0
            /\ j.t = "object"
            /\ j.v.status.t \in {"number", "boolean", "object"})
           => (/\ q.pc = "retError"
               /\ q.error = "TypeError"
               /\ q.resp.code = 200
               /\ q.resp.body.data = JObj(JStr(Str_pending), JNum(0)))

\* a record {status: 5, amount: 500} has been selected and answered with the
\* error envelope
C25_Witness ==
    /\ req[1].pc = "retError"
    /\ req[1].error = "TypeError"
    /\ req[1].transaction = JObj(JNum(5), JNum(500))
    /\ req[1].resp.body.data = JObj(JStr(Str_pending), JNum(0))

\* the same with the falsy status 0
C25_WitnessZeroStatus ==
    /\ req[1].pc = "retError"
    /\ req[1].error = "TypeError"
    /\ req[1].transaction = JObj(JNum(0), JNum(500))

\* C26: the shutdown gate covers GET /health.  A health check that arrives
\* once the flag is set is answered by the gate with HTTP 503, status "error"
\* and message "Service is shutting down"; no ping is started while the flag
\* is set, so such a check gets neither the healthy nor the unhealthy body,
\* reachable store or not.
C26_GateCoversHealth ==
    /\ [][(isShuttingDown /\ health.pc = "idle" /\ health'.pc # "idle")
            => (/\ health'.pc = "ret503"
                /\ health'.resp.code = 503
                /\ health'.resp.body.status = JStr(Str_error)
                /\ health'.resp.body.message = JStr(Str_shutting))]_vars
    /\ [][(isShuttingDown /\ health'.pc = "ping") => health.pc = "ping"]_vars
    /\ [](health.pc = "ret503"
            => (isShuttingDown /\ health.resp = ShuttingDownResponse))

\* a health check has met the gate while the store client is still ready
C26_Witness ==
    /\ isShuttingDown /\ ~exited
    /\ redisStatus = "ready"
    /\ health.pc = "ret503"
    /\ health.resp.code = 503

============================================================================
